---- MODULE Spec2Model ----
(***************************************************************************)
(* Model of the semantic response cache of Finance-Audit-Rag:              *)
(*   backend/services/cache_service.py  (SemanticCache, get_cache_instance)*)
(*   backend/routes/query_routes.py     (module import, query_rag)         *)
(* Similarities are cosine similarities scaled by 100 (0.85 is 85).        *)
(* Embeddings are integer vectors of norm 5, for which the scaled cosine   *)
(* is an exact integer.  Time is counted in ticks; a TTL is a number of    *)
(* ticks.                                                                  *)
(***************************************************************************)
EXTENDS Integers, Sequences, FiniteSets, TLC

VARIABLES
    redis_up,        \* the Redis server answers commands (environment)
    store,           \* Redis contents: key -> [value, ttl]
    instances,       \* every SemanticCache object constructed so far
    cache_instance,  \* cache_service._cache_instance: None or an object
    semantic_cache,  \* query_routes.semantic_cache: unset, bound to an object,
                     \* or the import of the module failed
    last,            \* the call that returned last, with its result
    expected,        \* history: per normalized query, the last stored response
    since_clear,     \* history: what happened to the cache since the last clear
    init_outcome,    \* history: how the constructions went
    pc,              \* per thread: position inside the call it runs step by
                     \* step (get_cache_instance, clear)
    frame,           \* per thread: arguments and locals of that call
    memory_file      \* ./backend/data/memory/session_memory.json: the
                     \* message dicts of the conversation, <<>> without a file

vars == <<redis_up, store, instances, cache_instance, semantic_cache, last,
          expected, since_clear, init_outcome, pc, frame, memory_file>>

None == "None"

----------------------------------------------------------------------------
(* Bounds of the model.                                                    *)

\* Longest TTL, in ticks, a caller may configure.
MaxTTL == 2

\* Number of threads that may call get_cache_instance concurrently.
NThreads == 2

\* The longest query text given to _normalize_query on its own.
MaxLen == 4

\* The memory file holds at most MaxMessages messages: a request that would
\* add more is not made.
MaxMessages == 8

Threads == 1..NThreads

\* ttl arguments.
TTLs == {MaxTTL}

----------------------------------------------------------------------------
(* Inputs.                                                                 *)

\* Queries are sequences of characters.
Queries ==
    { <<"a", " ", "b">>,            \* "a b"
      <<" ", "A", " ", "b">>,       \* " A b"   same normalized query as "a b"
      <<"a", " ", " ", "b">>,       \* "a  b"   other normalized query, same tokens
      <<"a", " ", "c">>,            \* "a c"    a similar question
      <<"c">> }                     \* "c"      an unrelated question

\* The queries callers store; "c" is only looked up.
StoredQueries == Queries \ {<<"c">>}

Responses == {"r1", "r2"}

\* similarity_threshold arguments, scaled by 100.
DefaultThreshold == 85

Thresholds == {0, 80, 100}

\* How redis.Redis(...).ping() can end inside the constructor.
ConnOutcomes == {"ok", "ConnectionError", "AuthenticationError", "TimeoutError"}

\* How SentenceTransformer('all-MiniLM-L6-v2') can end inside the constructor.
EncoderOutcomes == {"ok", "Exception"}

----------------------------------------------------------------------------
(* str.lower, str.strip, hashlib.md5, the encoder, cosine_similarity.      *)

Whitespace == {" "}

LowerChar(c) ==
    CASE c = "A" -> "a"
      [] c = "B" -> "b"
      [] c = "C" -> "c"
      [] OTHER -> c

Lower(s) == [i \in 1..Len(s) |-> LowerChar(s[i])]

RECURSIVE LStrip(_)
LStrip(s) ==
    IF s # <<>> /\ Head(s) \in Whitespace THEN LStrip(Tail(s)) ELSE s

RECURSIVE RStrip(_)
RStrip(s) ==
    IF s # <<>> /\ s[Len(s)] \in Whitespace
    THEN RStrip(SubSeq(s, 1, Len(s) - 1))
    ELSE s

Strip(s) == RStrip(LStrip(s))

\* A variant of normalization that strips but keeps the letter case.
NormalizeQueryKeepsCase(query) == Strip(query)

\* SemanticCache._normalize_query
NormalizeQuery(query) == Strip(Lower(query))

CharCode(c) ==
    CASE c = " " -> 1
      [] c = "a" -> 2
      [] c = "b" -> 3
      [] c = "c" -> 4
      [] c = "A" -> 5
      [] c = "B" -> 6
      [] c = "C" -> 7
      [] OTHER -> 8

\* hashlib.md5(text.encode()).hexdigest(): a digest without collisions on the
\* strings of the model (a positional code of the characters).
RECURSIVE Md5Hex(_)
Md5Hex(text) ==
    IF text = <<>> THEN 0
    ELSE CharCode(text[Len(text)]) + 9 * Md5Hex(SubSeq(text, 1, Len(text) - 1))

\* A variant of the key that is derived from the length of the query alone.
CacheKeyByLength(query_norm) == <<"query:", Len(query_norm)>>

\* key = f"query:{query_hash}"
CacheKey(query_norm) == <<"query:", Md5Hex(query_norm)>>

\* The word tokens of a text: the tokenizer of the encoder splits on
\* whitespace and drops it, and folds case.
RECURSIVE Tokens(_)
Tokens(text) ==
    IF text = <<>> THEN <<>>
    ELSE IF Head(text) \in Whitespace THEN Tokens(Tail(text))
    ELSE <<LowerChar(Head(text))>> \o Tokens(Tail(text))

\* encoder.encode(text): a fixed vector per token sequence.
Encode(text) ==
    LET toks == Tokens(text) IN
    CASE toks = <<"a", "b">> -> <<5, 0>>
      [] toks = <<"a", "c">> -> <<4, 3>>
      [] toks = <<"c">> -> <<0, 5>>
      [] OTHER -> <<3, 4>>

\* SemanticCache._generate_embedding: the empty array without an encoder.
GenerateEmbedding(self, text) ==
    IF ~self.encoder THEN <<>> ELSE Encode(text)

Dot(u, v) == u[1] * v[1] + u[2] * v[2]

\* Integer square root.
Isqrt(n) == CHOOSE r \in 0..n : r * r <= n /\ (r + 1) * (r + 1) > n

\* The Euclidean norm of an embedding.
Norm(u) == IF Dot(u, u) = 25 THEN 5 ELSE Isqrt(Dot(u, u))

\* sklearn cosine_similarity of two vectors, scaled by 100.
CosineSimilarity(u, v) ==
    (Dot(u, v) * 100) \div (Norm(u) * Norm(v))

----------------------------------------------------------------------------
(* The Redis server: KEYS, GET, SETEX, DEL and passive expiry.             *)

EmptyStore == [k \in {} |-> 0]

\* A variant of KEYS that answers every key of the server.
KeysOfAll(st, prefix) == DOMAIN st

\* KEYS prefix*
Keys(st, prefix) == {k \in DOMAIN st : k[1] = prefix}

\* A variant of SETEX that leaves the expiry of a key that exists as it is.
SetexKeepsExpiry(st, key, ttl, value) ==
    [k \in (DOMAIN st) \cup {key} |->
        IF k = key
        THEN [value |-> value,
              ttl |-> IF key \in DOMAIN st THEN st[key].ttl ELSE ttl]
        ELSE st[k]]

\* A variant of SETEX that keeps the response of a document it replaces.
SetexMergesFields(st, key, ttl, value) ==
    [k \in (DOMAIN st) \cup {key} |->
        IF k = key
        THEN [value |-> IF key \in DOMAIN st
                        THEN [value EXCEPT !.response = st[key].value.response]
                        ELSE value,
              ttl |-> ttl]
        ELSE st[k]]

\* SETEX key ttl value: replaces the value and the expiry of the key.
Setex(st, key, ttl, value) ==
    [k \in (DOMAIN st) \cup {key} |->
        IF k = key THEN [value |-> value, ttl |-> ttl] ELSE st[k]]

\* A variant of DEL that removes only one of the keys it is given.
DeleteOne(st, keys) ==
    IF keys \cap DOMAIN st = {} THEN st
    ELSE [k \in (DOMAIN st) \ {CHOOSE j \in keys \cap DOMAIN st : TRUE} |-> st[k]]

\* DEL key [key ...]
Delete(st, keys) == [k \in (DOMAIN st) \ keys |-> st[k]]

\* A variant of the server clock under which no key ever expires.
ExpireNever(st) == st

\* One tick of the server clock: every expiry comes one tick closer and the
\* keys that reach it are gone.
Expire(st) ==
    [k \in {j \in DOMAIN st : st[j].ttl > 1} |->
        [value |-> st[k].value, ttl |-> st[k].ttl - 1]]

\* KEYS returns the keys in an order of the server's choosing.
RECURSIVE Orders(_)
Orders(S) ==
    IF S = {} THEN {<<>>}
    ELSE UNION {{<<k>> \o o : o \in Orders(S \ {k})} : k \in S}

\* Whether the c-th Redis command of a call fails, when the server stops
\* answering at the fail_at-th command of that call (0: it keeps answering).
CommandFails(fail_at, c) == fail_at # 0 /\ fail_at <= c

----------------------------------------------------------------------------
(* SemanticCache.                                                          *)

\* except redis.ConnectionError: the class and its subclasses.
IsConnectionError(conn) == conn \in {"ConnectionError", "AuthenticationError"}

\* SemanticCache.__init__ lets the error of ping() escape.
InitRaises(conn) == conn # "ok" /\ ~IsConnectionError(conn)

\* SemanticCache.__init__: the object it leaves when it returns.
\* redis_client and encoder are FALSE for None.
InitObject(similarity_threshold, ttl, conn, enc) ==
    [redis_client |-> (conn = "ok"),
     encoder |-> (enc = "ok"),
     similarity_threshold |-> similarity_threshold,
     ttl |-> ttl]

\* A variant of is_available that asks for one of the two parts only.
IsAvailableEither(self) == self.redis_client \/ self.encoder

\* A variant of is_available that looks at the server as it is now.
IsAvailableNow(self) == redis_up /\ self.encoder

\* SemanticCache.is_available
IsAvailable(self) == self.redis_client /\ self.encoder

NoKey == <<>>

\* A field that the JSON document of an entry lacks (reading it raises
\* KeyError): Missing for 'response', MissingQuery for 'query' (a value no
\* text has), the empty vector for 'embedding'.
Missing == "Missing"

MissingQuery == <<Missing>>

\* cached_data["embedding"] can be read and compared with the query's
\* embedding: json.loads, the subscript and cosine_similarity (which rejects
\* vectors of another length) all succeed.
Readable(cached_data, query_embedding) ==
    Len(cached_data.embedding) = Len(query_embedding)

\* A variant of the loop body in which a later entry wins a tie.
ScanStepLastWins(acc, key, cached_data, query_embedding) ==
    LET similarity == CosineSimilarity(query_embedding, cached_data.embedding)
    IN  IF ~Readable(cached_data, query_embedding) THEN acc
        ELSE IF similarity >= acc.max_similarity
        THEN [max_similarity |-> similarity, best_match_key |-> key]
        ELSE acc

\* A variant of the loop body that keeps the first readable entry it meets.
ScanStepFirstSeen(acc, key, cached_data, query_embedding) ==
    IF ~Readable(cached_data, query_embedding) \/ acc.best_match_key # NoKey THEN acc
    ELSE [max_similarity |-> CosineSimilarity(query_embedding, cached_data.embedding),
          best_match_key |-> key]

\* One round of the loop.  An entry that cannot be read is skipped by the
\* inner except.  max_similarity and best_match_key are assigned before
\* cached_data["query"] is read, so an entry without 'query' still counts.
ScanStep(acc, key, cached_data, query_embedding) ==
    LET similarity == CosineSimilarity(query_embedding, cached_data.embedding)
    IN  IF ~Readable(cached_data, query_embedding) THEN acc
        ELSE IF similarity > acc.max_similarity
        THEN [max_similarity |-> similarity, best_match_key |-> key]
        ELSE acc

\* for key in cached_keys: the state of the loop after its first i rounds.
\* The i-th round issues the (i+1)-th command of the call; a round whose GET
\* fails is skipped by the inner except.
RECURSIVE Scan(_, _, _, _, _)
Scan(st, cached_keys, query_embedding, fail_at, i) ==
    IF i = 0 THEN [max_similarity |-> 0, best_match_key |-> NoKey]
    ELSE LET acc == Scan(st, cached_keys, query_embedding, fail_at, i - 1)
             key == cached_keys[i]
         IN  IF CommandFails(fail_at, i + 1) THEN acc
             ELSE ScanStep(acc, key, st[key].value, query_embedding)

\* A variant of the hit test that ignores the configured threshold.
ThresholdIgnored(max_similarity, similarity_threshold) == max_similarity >= 0

\* if max_similarity >= self.similarity_threshold
ThresholdMet(max_similarity, similarity_threshold) ==
    max_similarity >= similarity_threshold

\* A variant of the second read that falls back on any entry when the best
\* match is gone.
SecondReadAnyEntry(st, best_match_key) ==
    IF best_match_key = NoKey \/ st = EmptyStore THEN None
    ELSE IF best_match_key \notin DOMAIN st
    THEN st[CHOOSE k \in DOMAIN st : TRUE].value.response
    ELSE st[best_match_key].value.response

\* json.loads(self.redis_client.get(best_match_key))["response"], run inside
\* the outer try: GET of None raises DataError, json.loads of the None that
\* GET answers for a key that is gone raises TypeError, and get returns None.
SecondRead(st, best_match_key) ==
    IF best_match_key = NoKey THEN None
    ELSE IF best_match_key \notin DOMAIN st THEN None
    ELSE IF st[best_match_key].value.response = Missing THEN None
    ELSE st[best_match_key].value.response

\* SemanticCache.get: what it returns.  cached_keys is the answer of KEYS.
GetResult(self, st, query, cached_keys, fail_at) ==
    IF ~IsAvailable(self) THEN None
    ELSE IF CommandFails(fail_at, 1) THEN None
    ELSE IF cached_keys = <<>> THEN None
    ELSE
      LET query_norm == NormalizeQuery(query)
          query_embedding == GenerateEmbedding(self, query_norm)
          n == Len(cached_keys)
          acc == Scan(st, cached_keys, query_embedding, fail_at, n)
      IN  IF ThresholdMet(acc.max_similarity, self.similarity_threshold)
          THEN IF acc.best_match_key = NoKey THEN None
               ELSE IF CommandFails(fail_at, n + 2) THEN None
               ELSE IF st[acc.best_match_key].value.response = Missing THEN None
               ELSE st[acc.best_match_key].value.response
          ELSE None

\* The number of Redis commands a get issues.
GetCommands(self, st, query, cached_keys, fail_at) ==
    IF ~IsAvailable(self) THEN 0
    ELSE IF CommandFails(fail_at, 1) \/ cached_keys = <<>> THEN 1
    ELSE
      LET n == Len(cached_keys)
          acc == Scan(st, cached_keys,
                      GenerateEmbedding(self, NormalizeQuery(query)), fail_at, n)
      IN  IF ThresholdMet(acc.max_similarity, self.similarity_threshold)
             /\ acc.best_match_key # NoKey
          THEN n + 2 ELSE n + 1

\* A variant of get whose reads renew the expiry of the keys they read.
GetStoreTouches(self, st, cached_keys, fail_at) ==
    IF ~IsAvailable(self) \/ CommandFails(fail_at, 1) THEN st
    ELSE [k \in DOMAIN st |->
            IF \E i \in 1..Len(cached_keys) :
                   cached_keys[i] = k /\ ~CommandFails(fail_at, i + 1)
            THEN [st[k] EXCEPT !.ttl = self.ttl] ELSE st[k]]

\* The store after a get: its commands are KEYS and GET, which write nothing.
GetStore(self, st, cached_keys, fail_at) == st

\* A variant of set that writes one key per response instead of one per query.
SetStoreAppends(self, st, query, response, fail_at) ==
    IF ~IsAvailable(self) \/ CommandFails(fail_at, 1) THEN st
    ELSE
      LET query_norm == NormalizeQuery(query)
          cache_data == [query |-> query_norm,
                         response |-> response,
                         embedding |-> GenerateEmbedding(self, query_norm)]
      IN  Setex(st, <<"query:", Md5Hex(query_norm), response>>, self.ttl, cache_data)

\* SemanticCache.set: the store after it.
SetStore(self, st, query, response, fail_at) ==
    IF ~IsAvailable(self) \/ CommandFails(fail_at, 1) THEN st
    ELSE
      LET query_norm == NormalizeQuery(query)
          query_embedding == GenerateEmbedding(self, query_norm)
          cache_data == [query |-> query_norm,
                         response |-> response,
                         embedding |-> query_embedding]
      IN  Setex(st, CacheKey(query_norm), self.ttl, cache_data)

\* SemanticCache.set: what it returns.
SetResult(self, fail_at) ==
    IsAvailable(self) /\ ~CommandFails(fail_at, 1)

\* A variant of clear that deletes nothing.
ClearStoreKeeps(self, st, fail_at) == st

\* SemanticCache.clear: the store after it.
ClearStore(self, st, fail_at) ==
    IF ~IsAvailable(self) \/ CommandFails(fail_at, 1) THEN st
    ELSE LET keys == Keys(st, "query:")
         IN  IF keys = {} \/ CommandFails(fail_at, 2) THEN st
             ELSE Delete(st, keys)

\* A variant of clear that returns its count also when DEL failed.
ClearResultCounts(self, st, fail_at) ==
    IF ~IsAvailable(self) \/ CommandFails(fail_at, 1) THEN 0
    ELSE Cardinality(Keys(st, "query:"))

\* SemanticCache.clear: what it returns.
ClearResult(self, st, fail_at) ==
    IF ~IsAvailable(self) \/ CommandFails(fail_at, 1) THEN 0
    ELSE LET keys == Keys(st, "query:")
         IN  IF keys # {} /\ CommandFails(fail_at, 2) THEN 0
             ELSE Cardinality(keys)

\* The seconds of an hour, of a tenth of an hour and of one tick of the
\* model's clock (two minutes).
SecondsPerHour == 3600

TenthOfHour == SecondsPerHour \div 10

TickSeconds == SecondsPerHour \div 30

\* round(self.ttl / 3600, 1), in tenths of an hour.  No TTL of a whole number
\* of ticks lies halfway between two tenths.
TtlHours(ttl) == (ttl * TickSeconds + TenthOfHour \div 2) \div TenthOfHour

\* A variant of stats without the availability check.
StatsResultUnchecked(self, st, fail_at) ==
    IF CommandFails(fail_at, 1) \/ ~self.redis_client
    THEN [status |-> "error", message |-> "str(e)"]
    ELSE [status |-> "operational",
          total_cached_queries |-> Cardinality(Keys(st, "query:")),
          similarity_threshold |-> self.similarity_threshold,
          ttl_hours |-> TtlHours(self.ttl),
          redis_connected |-> TRUE]

\* A variant of stats that counts every key of the server.
StatsResultAllKeys(self, st, fail_at) ==
    IF ~IsAvailable(self)
    THEN [status |-> "unavailable", message |-> "Cache is not operational"]
    ELSE IF CommandFails(fail_at, 1) THEN [status |-> "error", message |-> "str(e)"]
    ELSE [status |-> "operational",
          total_cached_queries |-> Cardinality(DOMAIN st) + 1,
          similarity_threshold |-> self.similarity_threshold,
          ttl_hours |-> TtlHours(self.ttl),
          redis_connected |-> TRUE]

\* SemanticCache.stats: what it returns.
StatsResult(self, st, fail_at) ==
    IF ~IsAvailable(self)
    THEN [status |-> "unavailable", message |-> "Cache is not operational"]
    ELSE IF CommandFails(fail_at, 1) THEN [status |-> "error", message |-> "str(e)"]
    ELSE [status |-> "operational",
          total_cached_queries |-> Cardinality(Keys(st, "query:")),
          similarity_threshold |-> self.similarity_threshold,
          ttl_hours |-> TtlHours(self.ttl),
          redis_connected |-> TRUE]

----------------------------------------------------------------------------
(* History kept beside the program's state, for stating the properties.    *)

NormQueries == {NormalizeQuery(q) : q \in Queries}

NoExpect == [response |-> None, ttl |-> 0]

\* After a set that returned True: the response last stored for the
\* normalized query and the ticks until it expires.
ExpectSet(ex, self, query, response) ==
    [ex EXCEPT ![NormalizeQuery(query)] = [response |-> response, ttl |-> self.ttl]]

\* After a DEL of keys: what was stored under them is no longer expected.
ExpectDeleted(ex, keys) ==
    [n \in DOMAIN ex |-> IF CacheKey(n) \in keys THEN NoExpect ELSE ex[n]]

\* After one tick: what has expired is no longer expected.
ExpectTick(ex) ==
    [n \in DOMAIN ex |->
        IF ex[n].ttl <= 1 THEN NoExpect
        ELSE [ex[n] EXCEPT !.ttl = @ - 1]]

ExpectNothing == [n \in NormQueries |-> NoExpect]

\* last.op = "none": no call is waiting for its caller to take the result.
\* err: a Redis command of the call failed.  raised: the call raised.
\* keys: what KEYS answered to a get.
\* over: a set that replaced an entry expected to be present, or the get of
\* the same query right after it (response is then what that set stored).
\* cmds: the number of Redis commands the call sent.
\* trace: what a request did, in order.
NoCall ==
    [op |-> "none", query |-> <<>>, response |-> None, ret |-> None,
     err |-> FALSE, raised |-> FALSE, keys |-> <<>>, over |-> FALSE,
     cmds |-> 0, trace |-> <<>>]

Returned(op, query, response, ret, err) ==
    [op |-> op, query |-> query, response |-> response, ret |-> ret,
     err |-> err, raised |-> FALSE, keys |-> <<>>, over |-> FALSE,
     cmds |-> 0, trace |-> <<>>]

Idle == last.op = "none"

Raised(op) == [NoCall EXCEPT !.op = op, !.raised = TRUE]

----------------------------------------------------------------------------
(* The state after the modules are loaded and before any call.             *)

IdleFrame ==
    [similarity_threshold |-> 0, ttl |-> 0, obj |-> 0, ret |-> 0]

Init ==
    /\ redis_up \in BOOLEAN
    /\ store = EmptyStore
    /\ instances = <<>>
    /\ cache_instance = 0
    /\ semantic_cache = [state |-> "unset", obj |-> 0]
    /\ last = NoCall
    /\ expected = ExpectNothing
    /\ since_clear = "never_set"
    /\ init_outcome = <<>>
    /\ pc = [t \in Threads |-> "idle"]
    /\ frame = [t \in Threads |-> IdleFrame]
    /\ memory_file = <<>>

\* The outcomes ping() can have against the server as it is.
ConnFor(up) ==
    IF up THEN {"ok", "AuthenticationError"}
    ELSE {"ConnectionError", "TimeoutError"}

\* The commands at which the server may stop answering during a call that
\* issues at most n commands.
FailAts(up, n) == IF up THEN 0..n ELSE {1}

\* The server after a call that issued n commands.
UpAfter(up, fail_at, n) == IF n = 0 THEN up ELSE ~CommandFails(fail_at, n)

----------------------------------------------------------------------------
(* get_cache_instance, called by one caller at a time.                     *)

\* get_cache_instance(similarity_threshold=..., ttl=...), start to return.
\* A variant of get_cache_instance that applies the arguments of a later call
\* to the object it already has.
GetCacheInstanceReconfigures(similarity_threshold, ttl, conn, enc) ==
    IF cache_instance # 0
    THEN /\ last' = Returned("get_cache_instance", <<>>, None, cache_instance, FALSE)
         /\ instances' = [instances EXCEPT
                ![cache_instance].similarity_threshold = similarity_threshold,
                ![cache_instance].ttl = ttl]
         /\ UNCHANGED <<cache_instance, init_outcome>>
    ELSE IF InitRaises(conn)
    THEN /\ last' = Raised("get_cache_instance")
         /\ init_outcome' = Append(init_outcome,
                [conn |-> conn, enc |-> "not reached", obj |-> 0])
         /\ UNCHANGED <<instances, cache_instance>>
    ELSE /\ instances' = Append(instances, InitObject(similarity_threshold, ttl, conn, enc))
         /\ cache_instance' = Len(instances) + 1
         /\ init_outcome' = Append(init_outcome,
                [conn |-> conn, enc |-> enc, obj |-> Len(instances) + 1])
         /\ last' = Returned("get_cache_instance", <<>>, None, Len(instances) + 1, FALSE)

GetCacheInstanceBody(similarity_threshold, ttl, conn, enc) ==
    IF cache_instance # 0
    THEN /\ last' = Returned("get_cache_instance", <<>>, None, cache_instance, FALSE)
         /\ UNCHANGED <<instances, cache_instance, init_outcome>>
    ELSE IF InitRaises(conn)
    THEN /\ last' = Raised("get_cache_instance")
         /\ init_outcome' = Append(init_outcome,
                [conn |-> conn, enc |-> "not reached", obj |-> 0])
         /\ UNCHANGED <<instances, cache_instance>>
    ELSE /\ instances' = Append(instances, InitObject(similarity_threshold, ttl, conn, enc))
         /\ cache_instance' = Len(instances) + 1
         /\ init_outcome' = Append(init_outcome,
                [conn |-> conn, enc |-> enc, obj |-> Len(instances) + 1])
         /\ last' = Returned("get_cache_instance", <<>>, None, Len(instances) + 1, FALSE)

\* The first call of the process, by its start-up code.
GetCacheInstance(similarity_threshold, ttl, conn, enc) ==
    /\ Idle
    /\ semantic_cache.state = "unset"
    /\ cache_instance = 0 /\ init_outcome = <<>>
    /\ conn \in ConnFor(redis_up)
    /\ GetCacheInstanceBody(similarity_threshold, ttl, conn, enc)
    /\ UNCHANGED <<memory_file,
                   redis_up, store, semantic_cache, expected, since_clear, pc, frame>>

\* The caller takes the result of the call that returned.
Return ==
    /\ ~Idle
    /\ last' = NoCall
    /\ UNCHANGED <<memory_file,
                   redis_up, store, instances, cache_instance, semantic_cache,
                   expected, since_clear, init_outcome, pc, frame>>

----------------------------------------------------------------------------
(* The operations of the shared SemanticCache object.                      *)

Self == instances[cache_instance]

\* cache.is_available()
IsAvailableCall ==
    /\ Idle
    /\ cache_instance # 0
    /\ last' = Returned("is_available", <<>>, None, IsAvailable(Self), FALSE)
    /\ UNCHANGED <<memory_file,
                   redis_up, store, instances, cache_instance, semantic_cache,
                   expected, since_clear, init_outcome, pc, frame>>

\* cache.get(query), by a caller that took the last result or that has just
\* replaced the entry of the query by a set.  cached_keys is what KEYS
\* answers: the keys of the namespace in some order.
Get(query, cached_keys, fail_at) ==
    /\ cache_instance # 0
    /\ fail_at \in FailAts(redis_up, Len(cached_keys) + 2)
    /\ LET n == GetCommands(Self, store, query, cached_keys, fail_at)
           after_over == /\ last.op = "set"
                         /\ last.over
                         /\ NormalizeQuery(last.query) = NormalizeQuery(query)
       IN  /\ Idle \/ after_over
           /\ last' = [Returned("get", query,
                                IF after_over THEN last.response ELSE None,
                                GetResult(Self, store, query, cached_keys, fail_at),
                                n > 0 /\ CommandFails(fail_at, n))
                       EXCEPT !.keys = cached_keys, !.over = after_over, !.cmds = n]
           /\ redis_up' = UpAfter(redis_up, fail_at, n)
    /\ store' = GetStore(Self, store, cached_keys, fail_at)
    /\ UNCHANGED <<memory_file, instances, cache_instance, semantic_cache,
                   expected, since_clear, init_outcome, pc, frame>>

\* cache.set(query, response)
Set(query, response, fail_at) ==
    /\ Idle
    /\ cache_instance # 0
    /\ fail_at \in FailAts(redis_up, 1)
    /\ LET ok == SetResult(Self, fail_at)
           n == IF IsAvailable(Self) THEN 1 ELSE 0
       IN  /\ store' = SetStore(Self, store, query, response, fail_at)
           /\ last' = [Returned("set", query, response, ok,
                                n > 0 /\ CommandFails(fail_at, n))
                       EXCEPT !.over = ok /\ expected[NormalizeQuery(query)] # NoExpect,
                              !.cmds = n]
           /\ redis_up' = UpAfter(redis_up, fail_at, n)
           /\ expected' = IF ok THEN ExpectSet(expected, Self, query, response)
                          ELSE expected
           /\ since_clear' = IF ok THEN "dirty" ELSE since_clear
    /\ UNCHANGED <<memory_file,
                   instances, cache_instance, semantic_cache, init_outcome, pc, frame>>

\* The number of Redis commands a clear issues.
ClearCommands(self, st, fail_at) ==
    IF ~IsAvailable(self) THEN 0
    ELSE IF CommandFails(fail_at, 1) \/ Keys(st, "query:") = {} THEN 1
    ELSE 2

\* cache.clear()
Clear(fail_at) ==
    /\ Idle
    /\ cache_instance # 0
    /\ fail_at \in FailAts(redis_up, 2)
    /\ LET n == ClearCommands(Self, store, fail_at)
           failed == n > 0 /\ CommandFails(fail_at, n)
           count == ClearResult(Self, store, fail_at)
       IN  /\ store' = ClearStore(Self, store, fail_at)
           /\ last' = [Returned("clear", <<>>, None, count, failed) EXCEPT !.cmds = n]
           /\ redis_up' = UpAfter(redis_up, fail_at, n)
           /\ since_clear' =
                IF ~IsAvailable(Self) \/ failed THEN since_clear
                ELSE IF count > 0 THEN "cleared_some" ELSE "cleared_none"
    /\ expected' = ExpectNothing
    /\ UNCHANGED <<memory_file,
                   instances, cache_instance, semantic_cache, init_outcome, pc, frame>>

\* cache.stats()
Stats(fail_at) ==
    /\ Idle
    /\ cache_instance # 0
    /\ fail_at \in FailAts(redis_up, 1)
    /\ LET n == IF IsAvailable(Self) THEN 1 ELSE 0
       IN  /\ last' = [Returned("stats", <<>>, None, StatsResult(Self, store, fail_at),
                                n > 0 /\ CommandFails(fail_at, n))
                       EXCEPT !.cmds = n]
           /\ redis_up' = UpAfter(redis_up, fail_at, n)
    /\ UNCHANGED <<memory_file,
                   store, instances, cache_instance, semantic_cache,
                   expected, since_clear, init_outcome, pc, frame>>

----------------------------------------------------------------------------
(* The environment.                                                        *)

\* The server's clock advances by one tick.
Tick ==
    /\ Idle
    /\ store # EmptyStore
    /\ store' = Expire(store)
    /\ expected' = ExpectTick(expected)
    /\ UNCHANGED <<memory_file,
                   redis_up, instances, cache_instance, semantic_cache, last,
                   since_clear, init_outcome, pc, frame>>

\* The server stops answering between two calls.
StoreDown ==
    /\ Idle
    /\ redis_up
    /\ redis_up' = FALSE
    /\ UNCHANGED <<memory_file,
                   store, instances, cache_instance, semantic_cache, last, expected,
                   since_clear, init_outcome, pc, frame>>

\* The server answers again.
StoreUp ==
    /\ Idle
    /\ ~redis_up
    /\ redis_up' = TRUE
    /\ UNCHANGED <<memory_file,
                   store, instances, cache_instance, semantic_cache, last, expected,
                   since_clear, init_outcome, pc, frame>>

\* The cache object used by one caller at a time.
Next ==
    \/ \E th \in Thresholds, ttl \in TTLs, conn \in ConnOutcomes, enc \in EncoderOutcomes :
          GetCacheInstance(th, ttl, conn, enc)
    \/ IsAvailableCall
    \/ \E o \in Orders(Keys(store, "query:")), q \in Queries, f \in 0..1 : Get(q, o, f)
    \/ \E q \in StoredQueries, r \in Responses, f \in 0..1 : Set(q, r, f)
    \/ \E f \in 0..2 : Clear(f)
    \/ \E f \in 0..1 : Stats(f)
    \/ Return
    \/ Tick
    \/ StoreDown
    \/ StoreUp

Spec == Init /\ [][Next]_vars

----------------------------------------------------------------------------
(* backend/routes/query_routes.py: the import of the module, POST /query/  *)
(* (query_rag) and GET /query/cache/stats (get_cache_stats).               *)

\* ttl=86400 of query_routes, the longest TTL of the model.
RouteTTL == MaxTTL

\* import backend.routes.query_routes (by backend/main.py): at module level,
\* outside any try,
\*   semantic_cache = get_cache_instance(similarity_threshold=0.85, ttl=86400)
ImportQueryRoutes(conn, enc) ==
    /\ Idle
    /\ semantic_cache.state = "unset"
    /\ conn \in ConnFor(redis_up)
    /\ GetCacheInstanceBody(DefaultThreshold, RouteTTL, conn, enc)
    /\ semantic_cache' = IF last'.raised THEN [state |-> "ImportError", obj |-> 0]
                         ELSE [state |-> "bound", obj |-> last'.ret]
    /\ UNCHANGED <<memory_file,
                   redis_up, store, expected, since_clear, pc, frame>>

\* answer = response["answer"]: what the chain may generate, the empty
\* string included.
Answers == Responses \cup {""}

\* One thing a request did: the cache get with its result, the run of the
\* pipeline, the cache set with the response it passed.
Event(ev, val) == [ev |-> ev, val |-> val]

\* if cached_response:
Truthy(cached_response) == cached_response # None /\ cached_response # ""

\* A message of the chat memory.  The content of a human message is a query
\* and the content of an AI message is an answer.
HumanMessage(content) == [type |-> "human", query |-> content, answer |-> None]

AIMessage(content) == [type |-> "ai", query |-> <<>>, answer |-> content]

\* messages_to_dict and messages_from_dict of langchain.schema.
MessagesToDict(messages) ==
    [i \in DOMAIN messages |-> [type |-> messages[i].type, data |-> messages[i]]]

MessagesFromDict(dicts) ==
    [i \in DOMAIN dicts |-> [dicts[i].data EXCEPT !.type = dicts[i].type]]

\* AuditMemory(): a new buffer with the messages load_memory reads from the
\* file, none without a file.
AuditMemory(file) == MessagesFromDict(file)

\* chain.invoke({"question": query}) on a chain built with memory=memory.memory:
\* Chain.invoke ends with memory.save_context(inputs, outputs), which adds the
\* question and the answer to the buffer.
ChainInvoke(messages, query, answer) ==
    messages \o <<HumanMessage(query), AIMessage(answer)>>

\* The messages in the buffer when query_rag calls memory.save_memory():
\* AuditMemory(), chain.invoke, memory.add_message("user", request.query),
\* memory.add_message("ai", answer).
MemoryAfterMiss(file, query, answer) ==
    ChainInvoke(AuditMemory(file), query, answer)
        \o <<HumanMessage(query), AIMessage(answer)>>

\* What query_rag does with the cache and the pipeline, for a bound module.
\* pipeline says how the generation (retriever, chain.invoke, the memory
\* calls) ends and answer is what it generates.
QueryRagBody(self, query, cached_keys, fail_at, pipeline, answer) ==
    LET n1 == GetCommands(self, store, query, cached_keys, fail_at)
        cached_response == GetResult(self, store, query, cached_keys, fail_at)
        set_fail_at == IF CommandFails(fail_at, n1 + 1) THEN 1 ELSE 0
        n2 == IF IsAvailable(self) THEN 1 ELSE 0
        ok == SetResult(self, set_fail_at)
    IN  IF Truthy(cached_response)
        THEN /\ last' = [Returned("query_rag", query, None,
                    [status |-> "success", response |-> cached_response,
                     cached |-> TRUE], FALSE)
                         EXCEPT !.trace = <<Event("get", cached_response)>>]
             /\ redis_up' = UpAfter(redis_up, fail_at, n1)
             /\ UNCHANGED <<store, expected, since_clear, memory_file>>
        ELSE IF pipeline = "raises"
        THEN /\ last' = [Returned("query_rag", query, None, [status |-> "http500"],
                                  n1 > 0 /\ CommandFails(fail_at, n1))
                         EXCEPT !.raised = TRUE,
                                !.trace = <<Event("get", cached_response),
                                            Event("pipeline", None)>>]
             /\ redis_up' = UpAfter(redis_up, fail_at, n1)
             /\ UNCHANGED <<store, expected, since_clear, memory_file>>
        ELSE /\ Len(memory_file) + 4 <= MaxMessages
             /\ memory_file' = MessagesToDict(MemoryAfterMiss(memory_file, query, answer))
             /\ store' = SetStore(self, store, query, answer, set_fail_at)
             /\ expected' = IF ok THEN ExpectSet(expected, self, query, answer)
                            ELSE expected
             /\ since_clear' = IF ok THEN "dirty" ELSE since_clear
             /\ redis_up' = UpAfter(redis_up, fail_at, n1 + n2)
             /\ last' = [Returned("query_rag", query, answer,
                    [status |-> "success", response |-> answer, cached |-> FALSE],
                    n1 + n2 > 0 /\ CommandFails(fail_at, n1 + n2))
                         EXCEPT !.trace = <<Event("get", cached_response),
                                            Event("pipeline", None),
                                            Event("set", answer)>>]

\* A request POST /query/.  Without the module there is no application to
\* answer it.
QueryRag(query, cached_keys, fail_at, pipeline, answer) ==
    /\ Idle
    /\ semantic_cache.state # "unset"
    /\ IF semantic_cache.state = "ImportError"
       THEN /\ last' = [Returned("query_rag", query, IF pipeline = "ok" THEN answer ELSE None,
                                 [status |-> "no_service"], FALSE)
                        EXCEPT !.raised = TRUE]
            /\ UNCHANGED <<redis_up, store, expected, since_clear, memory_file>>
       ELSE /\ fail_at \in FailAts(redis_up, Len(cached_keys) + 3)
            /\ QueryRagBody(instances[semantic_cache.obj], query, cached_keys,
                            fail_at, pipeline, answer)
    /\ UNCHANGED <<instances, cache_instance, semantic_cache, init_outcome, pc, frame>>

\* A request GET /query/cache/stats.  The log line reads
\* stats['total_cached_queries'] inside the try: a record without that field
\* raises KeyError, which the except turns into HTTPException 500.
GetCacheStats(fail_at) ==
    /\ Idle
    /\ semantic_cache.state # "unset"
    /\ IF semantic_cache.state = "ImportError"
       THEN /\ last' = [Returned("get_cache_stats", <<>>, None,
                                 [status |-> "no_service"], FALSE)
                        EXCEPT !.raised = TRUE]
            /\ UNCHANGED redis_up
       ELSE LET self == instances[semantic_cache.obj]
                stats == StatsResult(self, store, fail_at)
                n == IF IsAvailable(self) THEN 1 ELSE 0
                err == n > 0 /\ CommandFails(fail_at, n)
            IN  /\ fail_at \in FailAts(redis_up, 1)
                /\ last' = IF "total_cached_queries" \in DOMAIN stats
                           THEN [Returned("get_cache_stats", <<>>, None, stats, err)
                                 EXCEPT !.cmds = n]
                           ELSE [Returned("get_cache_stats", <<>>, None,
                                          [status |-> "http500"], err)
                                 EXCEPT !.raised = TRUE, !.cmds = n]
                /\ redis_up' = UpAfter(redis_up, fail_at, n)
    /\ UNCHANGED <<memory_file,
                   store, instances, cache_instance, semantic_cache, expected,
                   since_clear, init_outcome, pc, frame>>

\* The application: the import, then requests.
NextRoutes ==
    \/ \E conn \in ConnOutcomes, enc \in EncoderOutcomes : ImportQueryRoutes(conn, enc)
    \/ \E o \in Orders(Keys(store, "query:")), q \in StoredQueries,
          f \in 0..(Cardinality(DOMAIN store) + 3),
          p \in {"ok", "raises"}, a \in Answers :
          QueryRag(q, o, f, p, a)
    \/ \E f \in 0..1 : GetCacheStats(f)
    \/ Return
    \/ Tick
    \/ StoreDown
    \/ StoreUp

SpecRoutes == Init /\ [][NextRoutes]_vars

----------------------------------------------------------------------------
(* get_cache_instance called by several threads: its steps.                *)

\* A thread enters get_cache_instance(similarity_threshold=..., ttl=...).
ThreadCall(t, similarity_threshold, ttl) ==
    /\ pc[t] = "idle"
    /\ pc' = [pc EXCEPT ![t] = "test"]
    /\ frame' = [frame EXCEPT ![t] = [IdleFrame EXCEPT
                    !.similarity_threshold = similarity_threshold, !.ttl = ttl]]
    /\ UNCHANGED <<memory_file,
                   redis_up, store, instances, cache_instance, semantic_cache, last,
                   expected, since_clear, init_outcome>>

\* if _cache_instance is None:
ThreadTest(t) ==
    /\ pc[t] = "test"
    /\ pc' = [pc EXCEPT ![t] = IF cache_instance = 0 THEN "construct" ELSE "return"]
    /\ UNCHANGED <<memory_file,
                   redis_up, store, instances, cache_instance, semantic_cache, last,
                   expected, since_clear, init_outcome, frame>>

\* SemanticCache(...): the constructor runs (it waits for ping() and loads
\* the model, so other threads run meanwhile).
ThreadConstruct(t, conn, enc) ==
    /\ pc[t] = "construct"
    /\ conn \in ConnFor(redis_up)
    /\ IF InitRaises(conn)
       THEN /\ pc' = [pc EXCEPT ![t] = "raised"]
            /\ init_outcome' = Append(init_outcome,
                   [conn |-> conn, enc |-> "not reached", obj |-> 0])
            /\ UNCHANGED <<instances, frame>>
       ELSE /\ instances' = Append(instances,
                   InitObject(frame[t].similarity_threshold, frame[t].ttl, conn, enc))
            /\ init_outcome' = Append(init_outcome,
                   [conn |-> conn, enc |-> enc, obj |-> Len(instances) + 1])
            /\ frame' = [frame EXCEPT ![t].obj = Len(instances) + 1]
            /\ pc' = [pc EXCEPT ![t] = "assign"]
    /\ UNCHANGED <<memory_file,
                   redis_up, store, cache_instance, semantic_cache, last,
                   expected, since_clear>>

\* _cache_instance = <the new object>
ThreadAssign(t) ==
    /\ pc[t] = "assign"
    /\ cache_instance' = frame[t].obj
    /\ pc' = [pc EXCEPT ![t] = "return"]
    /\ UNCHANGED <<memory_file,
                   redis_up, store, instances, semantic_cache, last,
                   expected, since_clear, init_outcome, frame>>

\* return _cache_instance
ThreadReturn(t) ==
    /\ pc[t] = "return"
    /\ frame' = [frame EXCEPT ![t].ret = cache_instance]
    /\ pc' = [pc EXCEPT ![t] = "done"]
    /\ UNCHANGED <<memory_file,
                   redis_up, store, instances, cache_instance, semantic_cache, last,
                   expected, since_clear, init_outcome>>

NextSingleton ==
    \/ \E t \in Threads, th \in Thresholds, ttl \in TTLs : ThreadCall(t, th, ttl)
    \/ \E t \in Threads : ThreadTest(t)
    \/ \E t \in Threads, conn \in ConnOutcomes, enc \in EncoderOutcomes :
          ThreadConstruct(t, conn, enc)
    \/ \E t \in Threads : ThreadAssign(t)
    \/ \E t \in Threads : ThreadReturn(t)

SpecSingleton == Init /\ [][NextSingleton]_vars

----------------------------------------------------------------------------
(* The cache beside another writer of the same Redis namespace, whose       *)
(* documents are not those that set writes.                                *)

\* The key the other writer uses (no query of the model has this digest).
ForeignKey == <<"query:", Md5Hex(<<>>)>>

\* Documents that json.loads or the scan of get cannot use in full.
CorruptEntries ==
    {[query |-> MissingQuery, response |-> Missing, embedding |-> <<>>]} \* not JSON
    \cup {[query |-> <<"a", " ", "b">>, response |-> r, embedding |-> <<>>]
             : r \in Responses}                                          \* no 'embedding'
    \cup {[query |-> <<"a", " ", "b">>, response |-> r, embedding |-> <<5>>]
             : r \in Responses}                                          \* wrong length
    \cup {[query |-> MissingQuery, response |-> r, embedding |-> <<5, 0>>]
             : r \in Responses}                                          \* no 'query'
    \cup {[query |-> <<"a", " ", "b">>, response |-> Missing, embedding |-> <<5, 0>>]}
                                                                         \* no 'response'

\* The other writer stores a document under the namespace.
ForeignWrite(cache_data) ==
    /\ Idle
    /\ redis_up
    /\ cache_instance # 0
    /\ ForeignKey \notin DOMAIN store
    /\ store' = Setex(store, ForeignKey, MaxTTL, cache_data)
    /\ since_clear' = "dirty"
    /\ UNCHANGED <<memory_file,
                   redis_up, instances, cache_instance, semantic_cache, last,
                   expected, init_outcome, pc, frame>>

NextCorrupt ==
    \/ \E th \in Thresholds, ttl \in TTLs, conn \in ConnOutcomes, enc \in EncoderOutcomes :
          GetCacheInstance(th, ttl, conn, enc)
    \/ \E q \in StoredQueries, r \in Responses : Set(q, r, 0)
    \/ \E d \in CorruptEntries : ForeignWrite(d)
    \/ \E o \in Orders(Keys(store, "query:")), q \in Queries : Get(q, o, 0)
    \/ Return

SpecCorrupt == Init /\ [][NextCorrupt]_vars

----------------------------------------------------------------------------
(* SemanticCache.clear by its Redis commands, beside other callers and the  *)
(* server's clock.                                                         *)

\* clear() up to `count = len(keys)`: the availability check, KEYS, and the
\* return when there is nothing to delete.  written is history: the keys
\* that set calls wrote since this KEYS.
ClearKeys(t) ==
    /\ pc[t] = "idle"
    /\ cache_instance # 0
    /\ redis_up
    /\ LET keys == IF IsAvailable(Self) THEN Keys(store, "query:") ELSE {}
       IN  /\ frame' = [frame EXCEPT ![t] =
                  [keys |-> keys, count |-> Cardinality(keys), removed |-> 0,
                   written |-> {}]]
           /\ pc' = [pc EXCEPT ![t] = IF keys = {} THEN "cleared" ELSE "clear_delete"]
    /\ UNCHANGED <<memory_file,
                   redis_up, store, instances, cache_instance, semantic_cache, last,
                   expected, since_clear, init_outcome>>

\* self.redis_client.delete(*keys): DEL removes the keys that still exist.
ClearDelete(t) ==
    /\ pc[t] = "clear_delete"
    /\ store' = Delete(store, frame[t].keys)
    /\ frame' = [frame EXCEPT ![t].removed =
                    Cardinality(frame[t].keys \cap DOMAIN store)]
    /\ pc' = [pc EXCEPT ![t] = "cleared"]
    /\ expected' = ExpectDeleted(expected, frame[t].keys)
    /\ since_clear' = "cleared_some"
    /\ UNCHANGED <<memory_file,
                   redis_up, instances, cache_instance, semantic_cache, last,
                   init_outcome>>

\* return count, taken by the caller.
ClearReturn(t) ==
    /\ pc[t] = "cleared"
    /\ pc' = [pc EXCEPT ![t] = "idle"]
    /\ frame' = [frame EXCEPT ![t] = IdleFrame]
    /\ UNCHANGED <<memory_file,
                   redis_up, store, instances, cache_instance, semantic_cache, last,
                   expected, since_clear, init_outcome>>

\* The queries stored beside a running clear.
ClearQueries == {<<"a", " ", "b">>, <<"a", " ", "c">>}

NextClear ==
    \/ \E conn \in ConnOutcomes, enc \in EncoderOutcomes :
          GetCacheInstance(DefaultThreshold, MaxTTL, conn, enc)
    \/ \E q \in ClearQueries : Set(q, "r1", 0)
    \/ Return
    \/ Tick
    \/ \E t \in Threads : ClearKeys(t)
    \/ \E t \in Threads : ClearDelete(t)
    \/ \E t \in Threads : ClearReturn(t)

SpecClear == Init /\ [][NextClear]_vars

----------------------------------------------------------------------------
(* The cache on a server that stops answering at any command of a call.    *)

NextFailures ==
    \/ \E conn \in ConnOutcomes, enc \in EncoderOutcomes :
          GetCacheInstance(DefaultThreshold, MaxTTL, conn, enc)
    \/ IsAvailableCall
    \/ \E o \in Orders(Keys(store, "query:")) :
          \E q \in ClearQueries, f \in 0..(Len(o) + 2) : Get(q, o, f)
    \/ \E q \in ClearQueries, r \in Responses, f \in 0..1 : Set(q, r, f)
    \/ \E f \in 0..2 : Clear(f)
    \/ \E f \in 0..1 : Stats(f)
    \/ Return
    \/ StoreDown
    \/ StoreUp

SpecFailures == Init /\ [][NextFailures]_vars

----------------------------------------------------------------------------
(* SemanticCache._normalize_query on the texts of a small alphabet, each   *)
(* followed by texts that differ from it in one letter's case or in one     *)
(* leading or trailing blank.                                              *)

Alphabet == {" ", "a", "A", "B"}

\* The texts of at most MaxLen characters.
Texts == UNION {[1..n -> Alphabet] : n \in 0..MaxLen}

\* str.swapcase on one character
SwapCase(c) ==
    CASE c = "a" -> "A"
      [] c = "b" -> "B"
      [] c = "c" -> "C"
      [] OTHER -> LowerChar(c)

\* The texts one step away from q: one letter in the other case, one blank
\* more or one blank less at either end.
Variants(q) ==
    {[q EXCEPT ![i] = SwapCase(q[i])] : i \in 1..Len(q)}
      \cup (IF Len(q) < MaxLen
            THEN UNION {{<<w>> \o q, q \o <<w>>} : w \in Whitespace}
            ELSE {})
      \cup (IF q # <<>> /\ Head(q) \in Whitespace THEN {Tail(q)} ELSE {})
      \cup (IF q # <<>> /\ q[Len(q)] \in Whitespace
            THEN {SubSeq(q, 1, Len(q) - 1)} ELSE {})

\* self._normalize_query(query).  trace holds what the call before it
\* returned when query is a variant of the query of that call.
NormalizeQueryCall(query, before) ==
    /\ cache_instance # 0
    /\ last' = [Returned("_normalize_query", query, None,
                         NormalizeQuery(query), FALSE)
                EXCEPT !.trace = before]
    /\ UNCHANGED <<memory_file,
                   redis_up, store, instances, cache_instance, semantic_cache,
                   expected, since_clear, init_outcome, pc, frame>>

\* _normalize_query of any text.
NormalizeText(query) ==
    /\ Idle
    /\ NormalizeQueryCall(query, <<>>)

\* _normalize_query of a variant of the text normalized last.
NormalizeVariant(query) ==
    /\ last.op = "_normalize_query"
    /\ query \in Variants(last.query)
    /\ NormalizeQueryCall(query, <<Event("_normalize_query", last.ret)>>)

\* _normalize_query of what it returned last.
NormalizeAgain ==
    /\ last.op = "_normalize_query"
    /\ last.ret # last.query
    /\ NormalizeQueryCall(last.ret, <<Event("_normalize_query", last.ret)>>)

NextNormalize ==
    \/ \E conn \in ConnOutcomes, enc \in EncoderOutcomes :
          GetCacheInstance(DefaultThreshold, MaxTTL, conn, enc)
    \/ \E q \in Texts : NormalizeText(q)
    \/ \E q \in Variants(last.query) : NormalizeVariant(q)
    \/ NormalizeAgain
    \/ Return

SpecNormalize == Init /\ [][NextNormalize]_vars

----------------------------------------------------------------------------
(* SemanticCache.set by its steps, called by several threads beside the     *)
(* server's clock.                                                         *)

\* The queries and responses of the concurrent writers.
RaceQueries == {<<"a", " ", "b">>, <<" ", "A", " ", "b">>, <<"a", " ", "c">>}

\* set(query, response) up to the SETEX command: the availability check, the
\* normalization, the embedding, the key and the document.  latest is
\* history: no set call wrote the key after this one.
SetBuild(t, query, response) ==
    /\ pc[t] = "idle"
    /\ cache_instance # 0
    /\ LET query_norm == NormalizeQuery(query)
           cache_data == [query |-> query_norm,
                          response |-> response,
                          embedding |-> GenerateEmbedding(Self, query_norm)]
       IN  /\ frame' = [frame EXCEPT ![t] =
                  [query |-> query, response |-> response,
                   key |-> CacheKey(query_norm), cache_data |-> cache_data,
                   ret |-> FALSE, latest |-> FALSE]]
           /\ pc' = [pc EXCEPT ![t] = IF IsAvailable(Self) THEN "setex" ELSE "set_done"]
    /\ UNCHANGED <<memory_file,
                   redis_up, store, instances, cache_instance, semantic_cache, last,
                   expected, since_clear, init_outcome>>

\* self.redis_client.setex(key, self.ttl, json.dumps(cache_data))
SetSetex(t) ==
    /\ pc[t] = "setex"
    /\ redis_up
    /\ store' = Setex(store, frame[t].key, Self.ttl, frame[t].cache_data)
    /\ expected' = ExpectSet(expected, Self, frame[t].query, frame[t].response)
    /\ since_clear' = "dirty"
    /\ frame' = [u \in Threads |->
                   IF u = t THEN [frame[t] EXCEPT !.ret = TRUE, !.latest = TRUE]
                   ELSE IF pc[u] \in {"setex", "set_done"}
                           /\ frame[u].key = frame[t].key
                   THEN [frame[u] EXCEPT !.latest = FALSE]
                   ELSE IF pc[u] \in {"clear_delete", "cleared"}
                   THEN [frame[u] EXCEPT !.written = @ \cup {frame[t].key}]
                   ELSE frame[u]]
    /\ pc' = [pc EXCEPT ![t] = "set_done"]
    /\ UNCHANGED <<memory_file,
                   redis_up, instances, cache_instance, semantic_cache, last,
                   init_outcome>>

\* return True / return False, taken by the caller.
SetReturn(t) ==
    /\ pc[t] = "set_done"
    /\ pc' = [pc EXCEPT ![t] = "idle"]
    /\ frame' = [frame EXCEPT ![t] = IdleFrame]
    /\ UNCHANGED <<memory_file,
                   redis_up, store, instances, cache_instance, semantic_cache, last,
                   expected, since_clear, init_outcome>>

NextSetRace ==
    \/ \E conn \in ConnOutcomes, enc \in EncoderOutcomes :
          GetCacheInstance(DefaultThreshold, MaxTTL, conn, enc)
    \/ Return
    \/ Tick
    \/ \E t \in Threads, q \in RaceQueries, r \in Responses : SetBuild(t, q, r)
    \/ \E t \in Threads : SetSetex(t)
    \/ \E t \in Threads : SetReturn(t)

SpecSetRace == Init /\ [][NextSetRace]_vars

----------------------------------------------------------------------------
(* SemanticCache.get by its Redis commands, beside concurrent set and clear *)
(* calls and the server's clock.                                           *)

\* get(query) up to the loop: the availability check, the normalization, the
\* embedding, KEYS, and the return when there are no keys.
GetKeys(t, query, cached_keys) ==
    /\ pc[t] = "idle"
    /\ cache_instance # 0
    /\ redis_up
    /\ LET query_embedding == GenerateEmbedding(Self, NormalizeQuery(query))
           scans == IsAvailable(Self) /\ cached_keys # <<>>
       IN  /\ frame' = [frame EXCEPT ![t] =
                  [query |-> query, query_embedding |-> query_embedding,
                   cached_keys |-> IF IsAvailable(Self) THEN cached_keys ELSE <<>>,
                   i |-> 1,
                   acc |-> [max_similarity |-> 0, best_match_key |-> NoKey],
                   ret |-> None]]
           /\ pc' = [pc EXCEPT ![t] = IF scans THEN "get_scan" ELSE "get_done"]
    /\ UNCHANGED <<memory_file,
                   redis_up, store, instances, cache_instance, semantic_cache, last,
                   expected, since_clear, init_outcome>>

\* One round of `for key in cached_keys`: GET key and the comparison.  The
\* json.loads of the None that GET answers for a key that is gone raises
\* TypeError inside the inner try, and the round is skipped.  After the last
\* round comes the test of the threshold.
GetScanKey(t) ==
    /\ pc[t] = "get_scan"
    /\ LET f == frame[t]
           key == f.cached_keys[f.i]
           acc == IF key \in DOMAIN store
                  THEN ScanStep(f.acc, key, store[key].value, f.query_embedding)
                  ELSE f.acc
       IN  /\ frame' = [frame EXCEPT ![t] = [f EXCEPT !.acc = acc, !.i = f.i + 1]]
           /\ pc' = [pc EXCEPT ![t] =
                  IF f.i < Len(f.cached_keys) THEN "get_scan"
                  ELSE IF ThresholdMet(acc.max_similarity, Self.similarity_threshold)
                  THEN "get_read"
                  ELSE "get_done"]
    /\ UNCHANGED <<memory_file,
                   redis_up, store, instances, cache_instance, semantic_cache, last,
                   expected, since_clear, init_outcome>>

\* cached_data = json.loads(self.redis_client.get(best_match_key));
\* response = cached_data["response"]
GetRead(t) ==
    /\ pc[t] = "get_read"
    /\ frame' = [frame EXCEPT ![t].ret = SecondRead(store, frame[t].acc.best_match_key)]
    /\ pc' = [pc EXCEPT ![t] = "get_done"]
    /\ UNCHANGED <<memory_file,
                   redis_up, store, instances, cache_instance, semantic_cache, last,
                   expected, since_clear, init_outcome>>

\* return response / return None, taken by the caller.
GetReturn(t) ==
    /\ pc[t] = "get_done"
    /\ pc' = [pc EXCEPT ![t] = "idle"]
    /\ frame' = [frame EXCEPT ![t] = IdleFrame]
    /\ UNCHANGED <<memory_file,
                   redis_up, store, instances, cache_instance, semantic_cache, last,
                   expected, since_clear, init_outcome>>

\* Thread 1 reads or writes, thread 2 clears or writes, the others write.
NextRace ==
    \/ \E conn \in ConnOutcomes, enc \in EncoderOutcomes :
          GetCacheInstance(DefaultThreshold, MaxTTL, conn, enc)
    \/ Return
    \/ Tick
    \/ \E t \in Threads, q \in ClearQueries, r \in Responses : SetBuild(t, q, r)
    \/ \E t \in Threads : SetSetex(t)
    \/ \E t \in Threads : SetReturn(t)
    \/ \E o \in Orders(Keys(store, "query:")) :
          \E t \in {1}, q \in ClearQueries : GetKeys(t, q, o)
    \/ \E t \in Threads : GetScanKey(t)
    \/ \E t \in Threads : GetRead(t)
    \/ \E t \in Threads : GetReturn(t)
    \/ \E t \in {2} : ClearKeys(t)
    \/ \E t \in Threads : ClearDelete(t)
    \/ \E t \in Threads : ClearReturn(t)

SpecRace == Init /\ [][NextRace]_vars

----------------------------------------------------------------------------
(* The cache on a Redis server that another application uses too, under    *)
(* keys outside the namespace 'query:'.                                    *)

OtherKey == <<"session:", Md5Hex(<<>>)>>

\* What the other application keeps under its key: a document that would
\* match the query "a b" if get compared it.
OtherData ==
    {[query |-> <<"a", " ", "b">>, response |-> r, embedding |-> <<5, 0>>] :
        r \in {"other1", "other2"}}

\* The other application writes its key.
OtherWrite(data) ==
    /\ Idle
    /\ redis_up
    /\ cache_instance # 0
    /\ ~(OtherKey \in DOMAIN store /\ store[OtherKey].value = data)
    /\ store' = Setex(store, OtherKey, MaxTTL, data)
    /\ UNCHANGED <<memory_file,
                   redis_up, instances, cache_instance, semantic_cache, last,
                   expected, since_clear, init_outcome, pc, frame>>

NextNamespace ==
    \/ \E conn \in ConnOutcomes, enc \in EncoderOutcomes :
          GetCacheInstance(DefaultThreshold, MaxTTL, conn, enc)
    \/ \E d \in OtherData : OtherWrite(d)
    \/ \E o \in Orders(Keys(store, "query:")), q \in ClearQueries : Get(q, o, 0)
    \/ \E q \in ClearQueries, r \in Responses : Set(q, r, 0)
    \/ Clear(0)
    \/ Stats(0)
    \/ Return

SpecNamespace == Init /\ [][NextNamespace]_vars

----------------------------------------------------------------------------
(* The configuration of the object: the operations of the cache and later  *)
(* calls of get_cache_instance with other arguments.                       *)

\* A later call of get_cache_instance; frame[1] keeps its arguments.
GetCacheInstanceAgain(similarity_threshold, ttl, conn, enc) ==
    /\ Idle
    /\ cache_instance # 0
    /\ conn \in ConnFor(redis_up)
    /\ GetCacheInstanceBody(similarity_threshold, ttl, conn, enc)
    /\ frame' = [frame EXCEPT ![1] =
            [IdleFrame EXCEPT !.similarity_threshold = similarity_threshold,
                              !.ttl = ttl]]
    /\ UNCHANGED <<memory_file,
                   redis_up, store, semantic_cache, expected, since_clear, pc>>

NextConfig ==
    \/ \E th \in Thresholds, conn \in ConnOutcomes, enc \in EncoderOutcomes :
          GetCacheInstance(th, MaxTTL, conn, enc)
    \/ \E th \in Thresholds, ttl \in 1..MaxTTL, conn \in ConnOutcomes,
          enc \in EncoderOutcomes : GetCacheInstanceAgain(th, ttl, conn, enc)
    \/ IsAvailableCall
    \/ \E o \in Orders(Keys(store, "query:")), q \in ClearQueries : Get(q, o, 0)
    \/ \E q \in ClearQueries, f \in 0..1 : Set(q, "r1", f)
    \/ \E f \in 0..2 : Clear(f)
    \/ \E f \in 0..1 : Stats(f)
    \/ Return
    \/ StoreDown
    \/ StoreUp

SpecConfig == Init /\ [][NextConfig]_vars

----------------------------------------------------------------------------
(* backend/core/retrievers.py: get_federated_retriever on every state of   *)
(* the two store directories.                                              *)

\* <VECTORSTORE_PATH>/faiss_store/faiss_index: whether index.faiss exists
\* and how FAISS.load_local ends.
FaissStores ==
    [index_file : BOOLEAN, load : {"ok", "raises"}]

\* <VECTORSTORE_PATH>/chroma_store: whether the path exists, how os.listdir
\* ends on it (it raises on a path that is not a directory or that cannot be
\* read) and how Chroma(...) ends.
ChromaStores ==
    [exists : BOOLEAN, listdir : {"subfolders", "no_subfolders", "raises"},
     load : {"ok", "raises"}]

\* faiss_weight and chroma_weight, in tenths.
Weights == {0, 4, 6, 10}

\* load_faiss_store: the retriever, or None.
LoadFaissStore(fs) ==
    IF ~fs.index_file THEN None
    ELSE IF fs.load = "raises" THEN None
    ELSE "faiss_retriever"

\* load_chroma_store: the retriever over the first subfolder or over the
\* directory itself, or None; the listing of the directory is outside the try.
LoadChromaStore(cs) ==
    IF ~cs.exists THEN [raised |-> FALSE, ret |-> None]
    ELSE IF cs.listdir = "raises" THEN [raised |-> TRUE, ret |-> "OSError"]
    ELSE IF cs.load = "raises" THEN [raised |-> FALSE, ret |-> None]
    ELSE [raised |-> FALSE,
          ret |-> IF cs.listdir = "subfolders" THEN "chroma_retriever_subfolder"
                  ELSE "chroma_retriever_dir"]

\* What get_federated_retriever returns or raises.
FederatedRetriever(fs, cs, faiss_weight, chroma_weight) ==
    LET faiss_retriever == LoadFaissStore(fs)
        chroma == LoadChromaStore(cs)
    IN  IF chroma.raised THEN [raised |-> TRUE, ret |-> chroma.ret]
        ELSE
        LET chroma_retriever == chroma.ret
            retrievers ==
                (IF faiss_retriever # None THEN <<faiss_retriever>> ELSE <<>>)
                \o (IF chroma_retriever # None THEN <<chroma_retriever>> ELSE <<>>)
            weights ==
                (IF faiss_retriever # None THEN <<faiss_weight>> ELSE <<>>)
                \o (IF chroma_retriever # None THEN <<chroma_weight>> ELSE <<>>)
        IN  IF retrievers = <<>> THEN [raised |-> TRUE, ret |-> "ValueError"]
            ELSE IF Len(retrievers) = 1
            THEN [raised |-> FALSE,
                  ret |-> [ensemble |-> FALSE, retrievers |-> retrievers,
                           weights |-> <<>>]]
            ELSE [raised |-> FALSE,
                  ret |-> [ensemble |-> TRUE, retrievers |-> retrievers,
                           weights |-> weights]]

\* get_federated_retriever(faiss_weight, chroma_weight); frame[1] keeps the
\* state of the directories and the arguments.
GetFederatedRetriever(fs, cs, faiss_weight, chroma_weight) ==
    /\ Idle
    /\ LET r == FederatedRetriever(fs, cs, faiss_weight, chroma_weight)
       IN  last' = [Returned("get_federated_retriever", <<>>, None, r.ret, FALSE)
                        EXCEPT !.raised = r.raised]
    /\ frame' = [frame EXCEPT ![1] =
            [faiss |-> fs, chroma |-> cs, faiss_weight |-> faiss_weight,
             chroma_weight |-> chroma_weight]]
    /\ UNCHANGED <<memory_file,
                   redis_up, store, instances, cache_instance, semantic_cache,
                   expected, since_clear, init_outcome, pc>>

NextRetrievers ==
    \/ \E fs \in FaissStores, cs \in ChromaStores, fw \in Weights, cw \in Weights :
          GetFederatedRetriever(fs, cs, fw, cw)
    \/ Return

SpecRetrievers == Init /\ [][NextRetrievers]_vars

----------------------------------------------------------------------------
(* Properties.                                                             *)

\* The similarity get computes between its query and the entry at key k.
SimilarityTo(k) ==
    CosineSimilarity(GenerateEmbedding(Self, NormalizeQuery(last.query)),
                     store[k].value.embedding)

\* The last call was op, on an available cache, and no command of it failed.
Served(op) == last.op = op /\ IsAvailable(Self) /\ ~last.err

\* The key under which set stores the query of the last call.
KeyOfQuery == CacheKey(NormalizeQuery(last.query))

\* The key at position i of the KEYS answer is as similar to the query of the
\* last call as the entry of that query itself.
Tied(i) == SimilarityTo(last.keys[i]) >= SimilarityTo(KeyOfQuery)

\* The first key of the KEYS answer that is tied with the query's own entry.
FirstTied ==
    last.keys[CHOOSE i \in 1..Len(last.keys) : Tied(i) /\ \A j \in 1..(i - 1) : ~Tied(j)]

\* Another entry, with another response, is as similar to the query of the
\* last call as the entry of that query itself.
OtherTied ==
    \E i \in 1..Len(last.keys) :
        /\ Tied(i)
        /\ last.keys[i] # KeyOfQuery
        /\ store[last.keys[i]].value.response # store[KeyOfQuery].value.response

\* C1 as stated: round trip.  In an available cache, a get(q) that follows a
\* set(q, r) that returned True, with no expiry of the entry and no clear in
\* between, returns r, whatever else the store holds.
C1_RoundTrip ==
    (Served("get") /\ expected[NormalizeQuery(last.query)] # NoExpect)
        => last.ret = expected[NormalizeQuery(last.query)].response

\* C1, amended: under the same conditions the entry of q holds r, and get(q)
\* returns the response of the first entry, in the order of the KEYS answer,
\* that is as similar to q as q's own entry: r itself, unless the entry of
\* another normalized query with the same similarity is listed before it.
C1_RoundTripFirstTied ==
    (Served("get") /\ expected[NormalizeQuery(last.query)] # NoExpect)
        => /\ KeyOfQuery \in Keys(store, "query:")
           /\ store[KeyOfQuery].value.response
                  = expected[NormalizeQuery(last.query)].response
           /\ last.ret = IF FirstTied = KeyOfQuery
                         THEN expected[NormalizeQuery(last.query)].response
                         ELSE store[FirstTied].value.response

\* C1 witness: get(q) returned r although another entry with another
\* response is tied with the entry of q.
C1_Witness ==
    /\ Served("get")
    /\ expected[NormalizeQuery(last.query)] # NoExpect
    /\ OtherTied
    /\ last.ret = expected[NormalizeQuery(last.query)].response

\* C2 as stated: overwrite.  set(q, r1), set(q, r2), get(q): the get returns
\* r2 and the store holds exactly one entry of q.
C2_Overwrite ==
    (Served("get") /\ last.over)
        => /\ last.ret = last.response
           /\ Cardinality({k \in Keys(store, "query:") :
                  store[k].value.query = NormalizeQuery(last.query)}) = 1

\* C2, amended: after set(q, r1) and set(q, r2) the store holds exactly one
\* entry of q and it holds r2; the get(q) that follows returns r2 unless the
\* entry of another normalized query with the same similarity is listed
\* before the entry of q in the KEYS answer.
C2_OverwriteOneEntry ==
    (Served("get") /\ last.over)
        => /\ Cardinality({k \in Keys(store, "query:") :
                  store[k].value.query = NormalizeQuery(last.query)}) = 1
           /\ KeyOfQuery \in DOMAIN store
           /\ store[KeyOfQuery].value.response = last.response
           /\ (FirstTied = KeyOfQuery) => (last.ret = last.response)

\* C2 witness: the get after the second set returned what that set stored,
\* beside a tied entry of another query that holds another response.
C2_Witness ==
    /\ Served("get")
    /\ last.over
    /\ OtherTied
    /\ FirstTied = KeyOfQuery
    /\ last.ret = last.response

\* C3: inclusive hit rule.  In an available cache, when the largest
\* similarity between the query and the stored entries reaches the threshold
\* (equality included, threshold 0 included), get returns the response of a
\* stored entry.
C3_HitRule ==
    (Served("get")
       /\ \E k \in Keys(store, "query:") : SimilarityTo(k) >= Self.similarity_threshold)
        => \E k \in Keys(store, "query:") : last.ret = store[k].value.response

\* C4: no hit below the threshold.  get returns a response only if an entry
\* of the store has a similarity to the query of at least the threshold, and
\* the response is that of such an entry.
C4_NoHitBelowThreshold ==
    (last.op = "get" /\ last.ret # None)
        => \E k \in Keys(store, "query:") :
              /\ SimilarityTo(k) >= Self.similarity_threshold
              /\ store[k].value.response = last.ret

\* C4 witness: a miss on a store that holds a similar entry below the threshold.
C4_Witness ==
    /\ Served("get")
    /\ last.ret = None
    /\ \E k \in Keys(store, "query:") :
          SimilarityTo(k) > 0 /\ SimilarityTo(k) < Self.similarity_threshold

\* C5: miss on an empty cache.  After a clear that ran to its end, and in a
\* cache that never received a set, every get returns no match until the
\* next set.
C5_MissOnEmptyCache ==
    (last.op = "get" /\ since_clear \in {"never_set", "cleared_none", "cleared_some"})
        => last.ret = None

\* C5 witness: a get served by an available cache after a clear that removed
\* entries.
C5_Witness == Served("get") /\ since_clear = "cleared_some"

\* The store did not answer the last call: no connection since construction,
\* or a command of the call failed.
Unreachable == ~Self.redis_client \/ last.err

\* C6 as stated: whenever the store is unreachable, stats reports 'unavailable'.
C6_StatsUnavailable ==
    (last.op = "stats" /\ Unreachable) => last.ret.status = "unavailable"

\* C6, amended: whenever the store is unreachable, get returns no match, set
\* returns False and clear returns 0, none raising; stats reports
\* 'unavailable' when the cache was unavailable from construction and 'error'
\* when the store stopped answering afterwards.
C6_DegradedSilent ==
    /\ (last.op = "get" /\ Unreachable) => (last.ret = None /\ ~last.raised)
    /\ (last.op = "set" /\ Unreachable) => (last.ret = FALSE /\ ~last.raised)
    /\ (last.op = "clear" /\ Unreachable) => (last.ret = 0 /\ ~last.raised)
    /\ (last.op = "stats" /\ Unreachable)
          => /\ ~last.raised
             /\ last.ret.status = IF IsAvailable(Self) THEN "error" ELSE "unavailable"

\* C6 witness: stats on an available cache whose store stopped answering.
C6_Witness ==
    /\ last.op = "stats"
    /\ IsAvailable(Self)
    /\ last.err
    /\ last.ret.status = "error"

\* C7: the cache is no hard dependency.  A request whose generation pipeline
\* succeeds returns the generated answer, whatever state the cache is in.
C7_NoHardDependency ==
    (last.op = "query_rag" /\ last.response # None)
        => /\ ~last.raised
           /\ last.ret.status = "success"
           /\ last.ret.response = last.response

\* C8: construction fails soft.  Whatever the connection attempt and the
\* loading of the encoder end with, the constructor returns an object.
C8_ConstructionFailsSoft ==
    /\ last.op = "get_cache_instance" => ~last.raised
    /\ \A i \in DOMAIN init_outcome :
          /\ init_outcome[i].obj # 0
          /\ (init_outcome[i].conn # "ok" \/ init_outcome[i].enc # "ok")
                => ~IsAvailable(instances[init_outcome[i].obj])

\* How the construction of the shared object went.
Construction ==
    init_outcome[CHOOSE i \in DOMAIN init_outcome : init_outcome[i].obj = cache_instance]

\* C9: is_available() is True exactly when the connection and the encoder
\* both initialized at construction, and a call of it changes neither the
\* object nor the store.
C9_IsAvailable ==
    /\ [](last.op = "is_available"
            => (last.ret <=> (Construction.conn = "ok" /\ Construction.enc = "ok")))
    /\ [][(last.op = "none" /\ last'.op = "is_available")
            => UNCHANGED <<redis_up, store, instances, cache_instance>>]_vars

\* C9 witness: is_available() answered False for a cache whose connection
\* succeeded and whose encoder did not load.
C9_Witness ==
    /\ last.op = "is_available"
    /\ last.ret = FALSE
    /\ Construction.conn = "ok"
    /\ Construction.enc = "Exception"

\* The embedding get computes for the query of the last call.
QueryEmbedding == GenerateEmbedding(Self, NormalizeQuery(last.query))

\* The entry at key k is one that set could have written.
WellFormed(k) ==
    /\ store[k].value.query # MissingQuery
    /\ store[k].value.response # Missing
    /\ Readable(store[k].value, QueryEmbedding)

\* A well-formed entry that reaches the threshold with a positive similarity.
GoodMatch(k) ==
    /\ WellFormed(k)
    /\ SimilarityTo(k) >= Self.similarity_threshold
    /\ SimilarityTo(k) > 0

\* C11: corruption is isolated.  When the store holds one corrupt entry and a
\* well-formed entry that reaches the threshold, get returns the response of
\* a well-formed entry that reaches the threshold.
C11_CorruptionIsolated ==
    (/\ Served("get")
     /\ ForeignKey \in DOMAIN store
     /\ \E k \in Keys(store, "query:") : GoodMatch(k))
        => \E k \in Keys(store, "query:") :
              GoodMatch(k) /\ last.ret = store[k].value.response

\* The positions of the KEYS answer whose entries the scan can compare.
Comparable == {i \in 1..Len(last.keys) : Readable(store[last.keys[i]].value, QueryEmbedding)}

\* The position of the entry the scan selects: the first comparable entry
\* whose similarity no comparable entry exceeds.
FirstBest ==
    CHOOSE i \in Comparable :
        /\ \A j \in Comparable : SimilarityTo(last.keys[j]) <= SimilarityTo(last.keys[i])
        /\ \A j \in Comparable :
              SimilarityTo(last.keys[j]) = SimilarityTo(last.keys[i]) => i <= j

C13_ClearCountExact ==
    \A t \in Threads :
        pc[t] = "cleared"
            => frame[t].count = frame[t].removed

ConstructedAvailable == Construction.conn = "ok" /\ Construction.enc = "ok"

\* C15: the availability of the cache is decided at construction and never
\* changes: no call and no failure or recovery of the store moves a degraded
\* cache to available or an available one to degraded.
C15_AvailabilityFixed ==
    /\ [](cache_instance # 0 => (IsAvailable(Self) <=> ConstructedAvailable))
    /\ [][cache_instance # 0 =>
             /\ cache_instance' = cache_instance
             /\ instances' = instances
             /\ init_outcome' = init_outcome]_vars

\* C15 witness: a cache constructed without a connection refuses a set
\* after the store has come back.
C15_Witness ==
    /\ last.op = "set"
    /\ last.ret = FALSE
    /\ redis_up
    /\ Construction.conn = "ConnectionError"
    /\ Construction.enc = "ok"

\* C16: request flow.  When the cache get returns a stored response, the
\* request returns it marked cached and neither runs the pipeline nor calls
\* set; when get returns no match, the pipeline runs once and set is called
\* with the generated answer before the request returns it, not cached.
C16_RequestFlow ==
    (last.op = "query_rag" /\ semantic_cache.state = "bound" /\ ~last.raised)
        => IF last.trace[1].val # None
           THEN /\ last.trace = <<Event("get", last.ret.response)>>
                /\ last.ret.cached
           ELSE /\ last.trace = <<Event("get", None), Event("pipeline", None),
                                  Event("set", last.ret.response)>>
                /\ ~last.ret.cached

\* C17: get is read-only.  A get call, whether it hits, misses or fails,
\* leaves the set of keys, every stored value and every remaining TTL as they
\* were.
C17_GetReadOnly ==
    [][(last'.op = "get" /\ last.op # "get") => store' = store]_vars

\* A get has answered from an entry whose expiry is no longer the full TTL.
C17_Witness ==
    /\ last.op = "get"
    /\ last.ret # None
    /\ \E k \in DOMAIN store : store[k].ttl < Self.ttl

\* A step in which a call of set is made and returns.
SetStep == last'.op = "set" /\ last.op # "set"

\* C18: set writes exactly one key.  A set(q, r) that returns True stores at
\* the key 'query:' + digest(normalize(q)) the entry of normalize(q), r and the
\* embedding of q, with the full configured TTL, and leaves every other key
\* with its value and its TTL; a set that returns False leaves the store as it
\* was.
C18_SetWritesOneKey ==
    [][SetStep =>
         LET q == last'.query
             key == <<"query:", Md5Hex(NormalizeQuery(q))>>
         IN  IF last'.ret
             THEN /\ DOMAIN store' = (DOMAIN store) \cup {key}
                  /\ store'[key] =
                       [value |-> [query |-> NormalizeQuery(q),
                                   response |-> last'.response,
                                   embedding |-> Encode(q)],
                        ttl |-> Self.ttl]
                  /\ \A k \in (DOMAIN store) \ {key} : store'[k] = store[k]
             ELSE store' = store]_vars

\* A set has replaced the entry of its query while another entry, closer to
\* its expiry, is in the store.
C18_Witness ==
    /\ last.op = "set"
    /\ last.ret
    /\ last.over
    /\ \E k \in DOMAIN store :
          /\ k # CacheKey(NormalizeQuery(last.query))
          /\ store[k].ttl < Self.ttl

\* Every entry is stored under the key of the normalized query it holds, and a
\* query has that key exactly when it normalizes to that query.
OneKeyPerQuery ==
    \A k \in DOMAIN store :
        /\ store[k].value.query \in NormQueries
        /\ \A q \in Queries :
              CacheKey(NormalizeQuery(q)) = k
                  <=> NormalizeQuery(q) = store[k].value.query

\* C19: at most one entry per normalized query.  The entries are as many as
\* the distinct normalized queries they hold, each of which was passed to set:
\* the number of entries grows only by one, in a successful set of a query
\* whose normalized form has no entry yet; and two set calls write the same key
\* if and only if their queries normalize to the same string.
C19_OneEntryPerQuery ==
    /\ [](/\ OneKeyPerQuery
          /\ Cardinality(DOMAIN store)
               = Cardinality({store[k].value.query : k \in DOMAIN store})
          /\ \A q1, q2 \in Queries :
                CacheKey(NormalizeQuery(q1)) = CacheKey(NormalizeQuery(q2))
                    <=> NormalizeQuery(q1) = NormalizeQuery(q2))
    /\ [][Cardinality(DOMAIN store') > Cardinality(DOMAIN store) =>
             /\ SetStep
             /\ last'.ret
             /\ \A k \in DOMAIN store :
                   store[k].value.query # NormalizeQuery(last'.query)
             /\ Cardinality(DOMAIN store') = Cardinality(DOMAIN store) + 1]_vars

\* A set of a query that differs from its normalized form has replaced the
\* entry of that form, beside an entry of another query.
C19_Witness ==
    /\ last.op = "set"
    /\ last.ret
    /\ last.over
    /\ last.query # NormalizeQuery(last.query)
    /\ Cardinality(DOMAIN store) >= 2

\* A step in which the clock of the server advances by one tick.
ClockStep == last' = last /\ store' # store

\* A step in which a call of clear is made and returns.
ClearStep == last'.op = "clear" /\ last.op # "clear"

\* C20: TTL expiry.  An entry written by set and not set again is in the
\* store, with the expiry counted from that set, until ttl ticks have passed
\* and is absent from then on; setting the same normalized query again moves
\* the expiry to the full ttl after that set; and no entry leaves the store
\* except by its expiry or inside clear, nor does any call other than set
\* change an expiry.
C20_TTLExpiry ==
    /\ [](/\ \A k \in DOMAIN store : store[k].ttl \in 1..Self.ttl
          /\ \A n \in NormQueries :
                expected[n] # NoExpect
                    => /\ CacheKey(n) \in DOMAIN store
                       /\ store[CacheKey(n)].ttl = expected[n].ttl)
    /\ [][ClockStep =>
             /\ DOMAIN store' = {k \in DOMAIN store : store[k].ttl > 1}
             /\ \A k \in DOMAIN store' :
                   /\ store'[k].ttl = store[k].ttl - 1
                   /\ store'[k].value = store[k].value]_vars
    /\ [][(SetStep /\ last'.ret) =>
             store'[CacheKey(NormalizeQuery(last'.query))].ttl = Self.ttl]_vars
    /\ [][(\E k \in DOMAIN store : k \notin DOMAIN store') =>
             ClockStep \/ ClearStep]_vars
    /\ [][~ClockStep =>
             \A k \in (DOMAIN store) \cap (DOMAIN store') :
                 \/ store'[k].ttl = store[k].ttl
                 \/ /\ SetStep
                    /\ k = CacheKey(NormalizeQuery(last'.query))]_vars

\* A get finds the store empty although an entry was set and no clear was
\* made since: the entry has expired.
C20_Witness ==
    /\ last.op = "get"
    /\ last.ret = None
    /\ ~last.err
    /\ last.cmds = 1
    /\ store = EmptyStore
    /\ since_clear = "dirty"

\* C21: normalization is total, deterministic and idempotent.  Every text has
\* a normalized text, without capitals or a blank at either end; normalizing
\* that again gives the same text; and a text that differs from another only
\* in letter case and in leading or trailing blanks (each step of difference
\* being one letter's case or one blank at an end) normalizes to the same text.
C21_NormalizeIdempotent ==
    last.op = "_normalize_query"
        => /\ Len(last.ret) <= Len(last.query)
           /\ \A i \in 1..Len(last.ret) :
                 last.ret[i] \in {LowerChar(c) : c \in Alphabet}
           /\ NormalizeQuery(last.ret) = last.ret
           /\ Lower(last.ret) = last.ret
           /\ last.ret = <<>> \/ (Head(last.ret) \notin Whitespace
                                  /\ last.ret[Len(last.ret)] \notin Whitespace)
           /\ last.trace # <<>> => last.ret = last.trace[1].val

\* The normalized text of a variant, in another case and with another blank,
\* of a text that had a letter left after normalization.
C21_Witness ==
    /\ last.op = "_normalize_query"
    /\ last.trace # <<>>
    /\ last.ret # <<>>
    /\ Lower(last.query) # last.query
    /\ Strip(last.query) # last.query

\* The threads whose set has written the normalized query n and has not
\* returned yet.
Writers(n) ==
    {t \in Threads : /\ pc[t] = "set_done"
                     /\ frame[t].ret
                     /\ frame[t].cache_data.query = n}

\* C22: last writer wins.  When two callers have concurrently completed
\* set(q, r1) and set(q', r2) for one normalized query, at most one entry of
\* that query exists; until it expires it is there, it is the document of one
\* write in full, namely of the latest one (of one of the two callers unless a
\* third call wrote after them), and its expiry is that of the latest write.
C22_LastWriterWins ==
    \A n \in NormQueries :
        Cardinality(Writers(n)) >= 2
            => /\ Cardinality({k \in DOMAIN store : store[k].value.query = n}) <= 1
               /\ (CacheKey(n) \in DOMAIN store) <=> (expected[n] # NoExpect)
               /\ Cardinality({t \in Writers(n) : frame[t].latest}) <= 1
               /\ CacheKey(n) \in DOMAIN store
                    => /\ store[CacheKey(n)].value =
                             [query |-> n, response |-> expected[n].response,
                              embedding |-> Encode(n)]
                       /\ store[CacheKey(n)].ttl = expected[n].ttl
                       /\ \A t \in Writers(n) :
                             frame[t].latest
                                 => store[CacheKey(n)].value = frame[t].cache_data

\* Two writers of one normalized query, with different texts and different
\* responses, have both completed and the entry is in the store.
C22_Witness ==
    \E t1, t2 \in Threads :
        /\ {t1, t2} \subseteq Writers(<<"a", " ", "b">>)
        /\ frame[t1].query # frame[t2].query
        /\ frame[t1].response # frame[t2].response
        /\ frame[t2].latest
        /\ CacheKey(<<"a", " ", "b">>) \in DOMAIN store
        /\ store[CacheKey(<<"a", " ", "b">>)].ttl < Self.ttl

\* The second read of the get of thread t.
ReadStep(t) == pc[t] = "get_read" /\ pc'[t] = "get_done"

\* C23: get under interleaving.  Whatever set and clear calls and expiries
\* come between the commands of a get, the get does not raise: it returns no
\* match or a response; and a response it returns is the one a set call
\* stored last, in full, for a normalized query whose embedding is at least
\* as similar to the query as the threshold asks.
C23_GetUnderInterleaving ==
    /\ [](\A t \in Threads :
            pc[t] = "get_done" => frame[t].ret \in Responses \cup {None})
    /\ [][\A t \in Threads :
            (ReadStep(t) /\ frame'[t].ret # None)
                => \E n \in NormQueries :
                      /\ expected[n].response = frame'[t].ret
                      /\ CacheKey(n) \in DOMAIN store
                      /\ store[CacheKey(n)].value =
                            [query |-> n, response |-> frame'[t].ret,
                             embedding |-> Encode(n)]
                      /\ CosineSimilarity(frame[t].query_embedding, Encode(n))
                            >= Self.similarity_threshold]_vars

\* A get has returned no match because its best match, similar enough in the
\* scan, was gone at the second read.
C23_Witness ==
    \E t \in Threads :
        /\ pc[t] = "get_done"
        /\ frame[t].i > Len(frame[t].cached_keys)
        /\ frame[t].acc.best_match_key # NoKey
        /\ ThresholdMet(frame[t].acc.max_similarity, Self.similarity_threshold)
        /\ frame[t].ret = None

\* C24: clear racing with set.  When the DEL of a clear is done and until the
\* caller takes the result, every entry in the namespace was written by a set
\* after the KEYS of that clear, and every key of that KEYS answer that no set
\* wrote since is gone.
C24_ClearResidue ==
    \A t \in Threads :
        pc[t] = "cleared"
            => /\ \A k \in Keys(store, "query:") : k \in frame[t].written
               /\ \A k \in frame[t].keys \ frame[t].written : k \notin DOMAIN store

\* A clear is done and an entry it had listed is in the store, written again
\* since, beside a key it had listed that is gone.
C24_Witness ==
    \E t \in Threads :
        /\ pc[t] = "cleared"
        /\ frame[t].keys \cap DOMAIN store # {}
        /\ frame[t].keys \ DOMAIN store # {}

\* A step in which a call of stats is made and returns.
StatsStep == last'.op = "stats" /\ last.op # "stats"

\* stats changes neither the store nor the configuration.
StatsReadOnly ==
    [][StatsStep => /\ store' = store
                    /\ instances' = instances
                    /\ cache_instance' = cache_instance]_vars

\* What stats reports, but for the TTL: operational, the number of live
\* entries of the namespace and the threshold on an available cache whose
\* store answers; 'unavailable' and no count on an unavailable cache.
StatsReport ==
    /\ Served("stats")
          => /\ last.ret.status = "operational"
             /\ last.ret.total_cached_queries = Cardinality(Keys(store, "query:"))
             /\ last.ret.similarity_threshold = Self.similarity_threshold
    /\ (last.op = "stats" /\ ~IsAvailable(Self))
          => /\ last.ret.status = "unavailable"
             /\ DOMAIN last.ret = {"status", "message"}

\* C25 as stated: stats is read-only and accurate, and the TTL it reports on
\* an available cache is the configured TTL.
C25_StatsAccurate ==
    /\ [](/\ StatsReport
          /\ Served("stats")
                => last.ret.ttl_hours * TenthOfHour = Self.ttl * TickSeconds)
    /\ StatsReadOnly

\* C25, amended: stats is read-only and accurate, and the TTL it reports on
\* an available cache is the configured TTL in hours rounded to one decimal:
\* it differs from the configured TTL by at most a twentieth of an hour.
C25_StatsRoundedTTL ==
    /\ [](/\ StatsReport
          /\ Served("stats")
                => LET reported == last.ret.ttl_hours * TenthOfHour
                       configured == Self.ttl * TickSeconds
                   IN  /\ reported - configured <= TenthOfHour \div 2
                       /\ configured - reported <= TenthOfHour \div 2)
    /\ StatsReadOnly

\* stats on an available cache that holds entries reports a TTL that is not
\* the configured one.
C25_Witness ==
    /\ Served("stats")
    /\ last.ret.total_cached_queries > 0
    /\ last.ret.ttl_hours * TenthOfHour # Self.ttl * TickSeconds

\* C26: the statistics endpoint returns the stats record of the cache in every
\* state of the cache (operational, unavailable, store error) and never
\* answers 500 because the cache is degraded.
C26_StatsEndpoint ==
    (last.op = "get_cache_stats" /\ semantic_cache.state = "bound")
        => /\ ~last.raised
           /\ last.ret.status \in {"operational", "unavailable", "error"}

\* C27: namespace isolation.  Every key the cache writes starts with 'query:';
\* get returns, stats counts and clear deletes only entries under that prefix;
\* and no operation of the cache changes or removes a key outside it.
C27_NamespaceIsolation ==
    /\ [](/\ \A k \in DOMAIN store : k = OtherKey \/ k[1] = "query:"
          /\ last.op = "get" => last.ret \in Responses \cup {None}
          /\ Served("stats")
                => last.ret.total_cached_queries
                      = Cardinality((DOMAIN store) \ {OtherKey})
          /\ Served("clear") => DOMAIN store \subseteq {OtherKey})
    /\ [][(OtherKey \in DOMAIN store /\ last' # last)
             => /\ OtherKey \in DOMAIN store'
                /\ store'[OtherKey] = store[OtherKey]]_vars
    /\ [][ClearStep =>
             last'.ret <= Cardinality((DOMAIN store) \ {OtherKey})]_vars

\* A clear has removed entries of the cache while the key of the other
\* application is in the store.
C27_Witness ==
    /\ Served("clear")
    /\ last.ret > 0
    /\ OtherKey \in DOMAIN store

\* C28: the configuration is immutable after construction.  No step changes
\* the similarity_threshold, the ttl, the store client or the encoder of an
\* object that exists, and once the module holds an object it keeps that one,
\* with the client and the encoder its constructor left.
C28_ConfigImmutable ==
    /\ [][/\ \A i \in DOMAIN instances :
                i \in DOMAIN instances' /\ instances'[i] = instances[i]
          /\ cache_instance # 0 => cache_instance' = cache_instance]_vars
    /\ [](cache_instance # 0 =>
            \E j \in DOMAIN init_outcome :
                /\ init_outcome[j].obj = cache_instance
                /\ Self.redis_client = (init_outcome[j].conn = "ok")
                /\ Self.encoder = (init_outcome[j].enc = "ok"))

\* After a set has stored an entry, get_cache_instance was called again with
\* another threshold and another ttl and has returned the object.
C28_Witness ==
    /\ last.op = "get_cache_instance"
    /\ cache_instance # 0
    /\ store # EmptyStore
    /\ frame[1].ttl # 0
    /\ frame[1].similarity_threshold # Self.similarity_threshold
    /\ frame[1].ttl # Self.ttl

\* C30: federated retriever fallback.  get_federated_retriever returns the
\* ensemble of both retrievers with the weights (faiss_weight, chroma_weight)
\* when both stores load, the single loaded retriever when exactly one store
\* is missing or fails to load, and raises ValueError only when neither loads.
C30_FederatedFallback ==
    last.op = "get_federated_retriever" =>
        LET in == frame[1]
            faiss_loads == in.faiss.index_file /\ in.faiss.load = "ok"
            chroma_loads == /\ in.chroma.exists
                            /\ in.chroma.listdir # "raises"
                            /\ in.chroma.load = "ok"
        IN  /\ (faiss_loads /\ chroma_loads) =>
                /\ ~last.raised
                /\ last.ret.ensemble
                /\ last.ret.retrievers[1] = "faiss_retriever"
                /\ Len(last.ret.retrievers) = 2
                /\ last.ret.weights = <<in.faiss_weight, in.chroma_weight>>
            /\ (faiss_loads /\ ~chroma_loads) =>
                /\ ~last.raised
                /\ ~last.ret.ensemble
                /\ last.ret.retrievers = <<"faiss_retriever">>
            /\ (~faiss_loads /\ chroma_loads) =>
                /\ ~last.raised
                /\ ~last.ret.ensemble
                /\ Len(last.ret.retrievers) = 1
                /\ last.ret.retrievers[1] # "faiss_retriever"
            /\ (last.raised /\ last.ret = "ValueError") =>
                (~faiss_loads /\ ~chroma_loads)

\* C29: conversation memory on a hit and on a miss.  A request answered from
\* the cache leaves the memory file as it was; a request that generated its
\* answer has added exactly the user message and the AI answer to the file,
\* and it ran the pipeline, the memory calls included, before the cache set.
C29_MemoryHitMiss ==
    [][(last.op = "none" /\ last'.op = "query_rag" /\ ~last'.raised) =>
          IF last'.ret.cached
          THEN memory_file' = memory_file
          ELSE /\ Len(memory_file') = Len(memory_file) + 2
               /\ memory_file' = memory_file \o
                    MessagesToDict(<<HumanMessage(last'.query),
                                     AIMessage(last'.ret.response)>>)
               /\ Len(last'.trace) = 3
               /\ last'.trace[2].ev = "pipeline"
               /\ last'.trace[3].ev = "set"]_vars

\* C10: singleton.  Under every interleaving of get_cache_instance calls at
\* most one SemanticCache is constructed, every call returns the same object,
\* and the parameters of the first call stay in force.
C10_Singleton ==
    /\ Len(instances) <= 1
    /\ \A t, u \in Threads :
          (pc[t] = "done" /\ pc[u] = "done") => frame[t].ret = frame[u].ret

====
